---- MODULE Spec2Model ----
(***************************************************************************)
(* Model of packages/linter/src/migrations/update-10-4-0/                  *)
(* update-eslint-configs-to-use-nx-presets.ts: the five exported reducers  *)
(* that strip from an ESLint configuration what a shared preset already    *)
(* supplies, and the two updateJsonInTree callbacks that compose them.     *)
(*                                                                         *)
(* JSON values are tagged records [t |-> type, v |-> payload]:             *)
(*   "undefined" (an absent property), "null", "bool", "num", "str",       *)
(*   "arr" (v a sequence of values), "obj" (v a function from the present  *)
(*   keys to values).  A configuration is a record of its eight recognised *)
(*   top-level properties, each a JSON value or Undefined.                 *)
(***************************************************************************)
EXTENDS Integers, Sequences, FiniteSets, TLC

VARIABLES
  json,                    \* the configuration being rewritten (mutated in place)
  configBeingExtended,     \* the reference handed to a directly called reducer
  call,                    \* the last direct reducer call: its arguments and the state before it
  ncalls,                  \* number of direct reducer calls made so far
  ref0,                    \* the reference as it was before the first direct call
  currentTypescriptConfig, \* module-level constant object (source line 384)
  currentReactConfig,      \* module-level constant object (source line 134)
  pc,                      \* position inside the running updateJsonInTree callback
  profile,                 \* which callback is running: "root" or "react"
  calls,                   \* reducers the running callback has invoked, in order
  input,                   \* the document the running callback was given
  first,                   \* result of the first pass when a document is migrated twice
  pass,                    \* 1 on the first migration of a document, 2 on its re-run
  ndocs                    \* number of callbacks started so far

vars == <<json, configBeingExtended, call, ncalls, ref0, currentTypescriptConfig,
          currentReactConfig, pc, profile, calls, input, first, pass, ndocs>>

moduleVars == <<currentTypescriptConfig, currentReactConfig>>
callbackVars == <<pc, profile, calls, input, first, pass, ndocs>>

----------------------------------------------------------------------------
(* Bounds of the model *)

\* longest extends / plugins / overrides list of a target document drawn by Init
MaxLen == 3
\* longest extends / plugins list of a reference drawn by Init
MaxRefLen == 2
\* longest run of direct reducer calls explored from one initial state
MaxCalls == 3
\* number of updateJsonInTree callbacks run one after another
MaxDocs == 2

----------------------------------------------------------------------------
(* JSON values *)

Undefined == [t |-> "undefined", v |-> 0]
JStr(s) == [t |-> "str", v |-> s]
JNum(n) == [t |-> "num", v |-> n]
JBool(b) == [t |-> "bool", v |-> b]
JArr(s) == [t |-> "arr", v |-> s]
JObj(f) == [t |-> "obj", v |-> f]
EmptyObj == JObj([k \in {} |-> Undefined])
EmptyArr == JArr(<<>>)

\* obj[name]: a missing property reads as undefined
Get(obj, name) == IF name \in DOMAIN obj.v THEN obj.v[name] ELSE Undefined

\* delete obj[name]
DeleteKey(obj, name) == JObj([k \in (DOMAIN obj.v) \ {name} |-> obj.v[k]])

\* the object obj without the properties in names
DeleteKeys(obj, names) == JObj([k \in (DOMAIN obj.v) \ names |-> obj.v[k]])

\* x ||= dflt : only undefined is falsy among the values a property can hold here
OrAssign(x, dflt) == IF x.t = "undefined" THEN dflt ELSE x

\* Array.prototype.includes on the payload of an array
includes(arr, x) == \E i \in 1..Len(arr) : arr[i] = x

\* arr.filter(e => !other.includes(e))
RECURSIVE filterNotIncluded(_, _)
filterNotIncluded(arr, other) ==
  IF arr = <<>> THEN <<>>
  ELSE IF includes(other, Head(arr))
       THEN filterNotIncluded(Tail(arr), other)
       ELSE <<Head(arr)>> \o filterNotIncluded(Tail(arr), other)

\* Array.from(new Set(arr)): a Set keeps insertion order, one entry per value
RECURSIVE addAll(_, _)
addAll(acc, arr) ==
  IF arr = <<>> THEN acc
  ELSE addAll(IF includes(acc, Head(arr)) THEN acc ELSE Append(acc, Head(arr)), Tail(arr))

ArrayFromSet(arr) == addAll(<<>>, arr)

\* assert.deepStrictEqual(a, b) does not throw
RECURSIVE deepStrictEqual(_, _)
deepStrictEqual(a, b) ==
  IF a.t # b.t THEN FALSE
  ELSE CASE a.t = "arr" ->
              /\ Len(a.v) = Len(b.v)
              /\ \A i \in 1..Len(a.v) : deepStrictEqual(a.v[i], b.v[i])
         [] a.t = "obj" ->
              /\ DOMAIN a.v = DOMAIN b.v
              /\ \A k \in DOMAIN a.v : deepStrictEqual(a.v[k], b.v[k])
         [] OTHER -> a.v = b.v

\* a === b, where a is read from the parsed document and b from the reference:
\* primitives compare by type and value, arrays and objects by identity, and
\* an object of the document is never the same object as one of the reference
StrictEquals(a, b) ==
  /\ a.t = b.t
  /\ a.t \notin {"arr", "obj"}
  /\ a.v = b.v

\* The numeric value of a string (StringToNumber), for the strings that occur
NaN == [nan |-> TRUE, n |-> 0]
Finite(n) == [nan |-> FALSE, n |-> n]
StringNumericValue(s) ==
  CASE s = "2015" -> Finite(2015)
    [] s = "2018" -> Finite(2018)
    [] s = "2019" -> Finite(2019)
    [] s = "2020" -> Finite(2020)
    [] s = "2021" -> Finite(2021)
    [] s = "" -> Finite(0)
    [] OTHER -> NaN

\* Number(x) for undefined, null, booleans, numbers and strings
Number(x) ==
  CASE x.t = "undefined" -> NaN
    [] x.t = "null" -> Finite(0)
    [] x.t = "bool" -> Finite(IF x.v THEN 1 ELSE 0)
    [] x.t = "num" -> Finite(x.v)
    [] x.t = "str" -> StringNumericValue(x.v)

\* a === b on two results of Number(): NaN equals nothing
NumberStrictEquals(a, b) == ~a.nan /\ ~b.nan /\ a.n = b.n

----------------------------------------------------------------------------
(* The reducers.  Each mutates both of its arguments, so each returns the   *)
(* pair of them as it leaves them.                                          *)

Both(j, c) == [json |-> j, configBeingExtended |-> c]

ensureStringArray(val) ==
  IF val.t = "str" THEN JArr(<<val>>)
  ELSE OrAssign(val, EmptyArr)

\* mutant: the Array.from(new Set(...)) line is missing
updateExtendsKeepingDuplicates(j, c, deleteIfUltimatelyEmpty, extendsToAdd) ==
  LET jExtends == ensureStringArray(j.extends)
      cExtends == ensureStringArray(c.extends)
      unshifted == <<extendsToAdd>> \o jExtends.v
      filtered == filterNotIncluded(unshifted, cExtends.v)
  IN Both([j EXCEPT !.extends = IF deleteIfUltimatelyEmpty /\ Len(filtered) = 0
                                THEN Undefined ELSE JArr(filtered)],
          [c EXCEPT !.extends = cExtends])

\* mutant: the de-duplicated list is also assigned to configBeingExtended.extends
updateExtendsWritingReference(j, c, deleteIfUltimatelyEmpty, extendsToAdd) ==
  LET jExtends == ensureStringArray(j.extends)
      cExtends == ensureStringArray(c.extends)
      unshifted == <<extendsToAdd>> \o jExtends.v
      filtered == filterNotIncluded(unshifted, cExtends.v)
      unique == ArrayFromSet(filtered)
  IN Both([j EXCEPT !.extends = IF deleteIfUltimatelyEmpty /\ Len(unique) = 0
                                THEN Undefined ELSE JArr(unique)],
          [c EXCEPT !.extends = JArr(unique)])

updateExtendsAndRemoveDuplication(j, c, deleteIfUltimatelyEmpty, extendsToAdd) ==
  LET jExtends == ensureStringArray(j.extends)
      cExtends == ensureStringArray(c.extends)
      unshifted == <<extendsToAdd>> \o jExtends.v
      filtered == filterNotIncluded(unshifted, cExtends.v)
      unique == ArrayFromSet(filtered)
  IN Both([j EXCEPT !.extends = IF deleteIfUltimatelyEmpty /\ Len(unique) = 0
                                THEN Undefined ELSE JArr(unique)],
          [c EXCEPT !.extends = cExtends])

\* mutant: the Array.from(new Set(...)) line is missing
updatePluginsKeepingDuplicates(j, c, deleteIfUltimatelyEmpty, ensurePlugin) ==
  LET jPlugins == OrAssign(j.plugins, EmptyArr)
      cPlugins == OrAssign(c.plugins, EmptyArr)
      truthy == ensurePlugin.t = "str" /\ ensurePlugin.v # ""
      unshifted == IF truthy /\ ~includes(jPlugins.v, ensurePlugin)
                   THEN <<ensurePlugin>> \o jPlugins.v ELSE jPlugins.v
      filtered == filterNotIncluded(unshifted, cPlugins.v)
  IN Both([j EXCEPT !.plugins = IF deleteIfUltimatelyEmpty /\ Len(filtered) = 0
                                THEN Undefined ELSE JArr(filtered)],
          [c EXCEPT !.plugins = cPlugins])

\* mutant: ensurePlugin is unshifted without the includes test, as extendsToAdd is
updatePluginsAlwaysUnshifting(j, c, deleteIfUltimatelyEmpty, ensurePlugin) ==
  LET jPlugins == OrAssign(j.plugins, EmptyArr)
      cPlugins == OrAssign(c.plugins, EmptyArr)
      truthy == ensurePlugin.t = "str" /\ ensurePlugin.v # ""
      unshifted == IF truthy THEN <<ensurePlugin>> \o jPlugins.v ELSE jPlugins.v
      filtered == filterNotIncluded(unshifted, cPlugins.v)
      unique == ArrayFromSet(filtered)
  IN Both([j EXCEPT !.plugins = IF deleteIfUltimatelyEmpty /\ Len(unique) = 0
                                THEN Undefined ELSE JArr(unique)],
          [c EXCEPT !.plugins = cPlugins])

updatePluginsAndRemoveDuplication(j, c, deleteIfUltimatelyEmpty, ensurePlugin) ==
  LET jPlugins == OrAssign(j.plugins, EmptyArr)
      cPlugins == OrAssign(c.plugins, EmptyArr)
      truthy == ensurePlugin.t = "str" /\ ensurePlugin.v # ""
      unshifted == IF truthy /\ ~includes(jPlugins.v, ensurePlugin)
                   THEN <<ensurePlugin>> \o jPlugins.v ELSE jPlugins.v
      filtered == filterNotIncluded(unshifted, cPlugins.v)
      unique == ArrayFromSet(filtered)
  IN Both([j EXCEPT !.plugins = IF deleteIfUltimatelyEmpty /\ Len(unique) = 0
                                THEN Undefined ELSE JArr(unique)],
          [c EXCEPT !.plugins = cPlugins])

\* mutant: ecmaVersion is compared with === and no Number()
updateParserOptionsWithoutCoercion(j, c) ==
  LET jOpts == OrAssign(j.parserOptions, EmptyObj)
      cOpts == OrAssign(c.parserOptions, EmptyObj)
      jVersion == Get(jOpts, "ecmaVersion")
      afterVersion ==
        IF \/ StrictEquals(jVersion, JNum(2018))
           \/ StrictEquals(jVersion, Get(cOpts, "ecmaVersion"))
        THEN DeleteKey(jOpts, "ecmaVersion") ELSE jOpts
      same == {name \in DOMAIN afterVersion.v :
                 StrictEquals(afterVersion.v[name], Get(cOpts, name))}
  IN Both([j EXCEPT !.parserOptions = DeleteKeys(afterVersion, same)],
          [c EXCEPT !.parserOptions = cOpts])

updateParserOptionsAndRemoveDuplication(j, c) ==
  LET jOpts == OrAssign(j.parserOptions, EmptyObj)
      cOpts == OrAssign(c.parserOptions, EmptyObj)
      jVersion == Number(Get(jOpts, "ecmaVersion"))
      afterVersion ==
        IF \/ NumberStrictEquals(jVersion, Finite(2018))
           \/ NumberStrictEquals(jVersion, Number(Get(cOpts, "ecmaVersion")))
        THEN DeleteKey(jOpts, "ecmaVersion") ELSE jOpts
      same == {name \in DOMAIN afterVersion.v :
                 StrictEquals(afterVersion.v[name], Get(cOpts, name))}
  IN Both([j EXCEPT !.parserOptions = DeleteKeys(afterVersion, same)],
          [c EXCEPT !.parserOptions = cOpts])

\* mutant: the values are compared with === as the parser options are
updateObjPropComparingShallowly(j, c, objPropName, deleteIfUltimatelyEmpty) ==
  LET jProp == OrAssign(j[objPropName], EmptyObj)
      cProp == OrAssign(c[objPropName], EmptyObj)
      same == {name \in DOMAIN jProp.v :
                 StrictEquals(jProp.v[name], Get(cProp, name))}
      left == DeleteKeys(jProp, same)
  IN Both([j EXCEPT ![objPropName] = IF deleteIfUltimatelyEmpty /\ DOMAIN left.v = {}
                                     THEN Undefined ELSE left],
          [c EXCEPT ![objPropName] = cProp])

\* mutant: a duplicated property is deleted from the reference as well
updateObjPropDeletingFromBoth(j, c, objPropName, deleteIfUltimatelyEmpty) ==
  LET jProp == OrAssign(j[objPropName], EmptyObj)
      cProp == OrAssign(c[objPropName], EmptyObj)
      same == {name \in DOMAIN jProp.v :
                 deepStrictEqual(jProp.v[name], Get(cProp, name))}
      left == DeleteKeys(jProp, same)
  IN Both([j EXCEPT ![objPropName] = IF deleteIfUltimatelyEmpty /\ DOMAIN left.v = {}
                                     THEN Undefined ELSE left],
          [c EXCEPT ![objPropName] = DeleteKeys(cProp, same)])

updateObjPropAndRemoveDuplication(j, c, objPropName, deleteIfUltimatelyEmpty) ==
  LET jProp == OrAssign(j[objPropName], EmptyObj)
      cProp == OrAssign(c[objPropName], EmptyObj)
      same == {name \in DOMAIN jProp.v :
                 deepStrictEqual(jProp.v[name], Get(cProp, name))}
      left == DeleteKeys(jProp, same)
  IN Both([j EXCEPT ![objPropName] = IF deleteIfUltimatelyEmpty /\ DOMAIN left.v = {}
                                     THEN Undefined ELSE left],
          [c EXCEPT ![objPropName] = cProp])

\* mutant: an override block that matches no block of the reference is kept
overridesFilterCallbackKeepingUnmatched(o, extendedOverrides) ==
  IF \E i \in 1..Len(extendedOverrides) : deepStrictEqual(o, extendedOverrides[i])
  THEN FALSE
  ELSE TRUE

\* the callback given to json.overrides.filter: false on a match, false after the loop
overridesFilterCallback(o, extendedOverrides) ==
  IF \E i \in 1..Len(extendedOverrides) : deepStrictEqual(o, extendedOverrides[i])
  THEN FALSE
  ELSE FALSE

RECURSIVE filterOverrides(_, _)
filterOverrides(arr, extendedOverrides) ==
  IF arr = <<>> THEN <<>>
  ELSE IF overridesFilterCallback(Head(arr), extendedOverrides)
       THEN <<Head(arr)>> \o filterOverrides(Tail(arr), extendedOverrides)
       ELSE filterOverrides(Tail(arr), extendedOverrides)

\* Array.isArray(x) && x.length
NonEmptyArray(x) == x.t = "arr" /\ Len(x.v) > 0

updateOverridesAndRemoveDuplication(j, c, deleteIfUltimatelyEmpty) ==
  IF ~NonEmptyArray(j.overrides) THEN Both(j, c)
  ELSE IF ~NonEmptyArray(c.overrides) THEN Both(j, c)
  ELSE LET kept == filterOverrides(j.overrides.v, c.overrides.v)
       IN Both([j EXCEPT !.overrides = IF deleteIfUltimatelyEmpty /\ Len(kept) = 0
                                       THEN Undefined ELSE JArr(kept)],
               c)

----------------------------------------------------------------------------
(* Documents and the inputs drawn for the directly called reducers *)

Fields == {"extends", "plugins", "parser", "parserOptions", "rules", "env",
           "settings", "overrides"}

EmptyDoc == [extends |-> Undefined, plugins |-> Undefined, parser |-> Undefined,
             parserOptions |-> Undefined, rules |-> Undefined, env |-> Undefined,
             settings |-> Undefined, overrides |-> Undefined]

SeqsUpTo(S, n) == UNION {[1..k -> S] : k \in 0..n}

\* entries of extends / plugins lists, any of which may be the injected identifier
Entries == {JStr("a"), JStr("b"), JStr("p")}

AllowTrue == JArr(<<JStr("warn"), JObj([allow |-> JBool(TRUE)])>>)
AllowFalse == JArr(<<JStr("warn"), JObj([allow |-> JBool(FALSE)])>>)
Detect == JObj([version |-> JStr("detect")])

\* values of the properties of rules / env / settings
TargetPropVals == {JStr("warn"), JBool(TRUE), AllowTrue, AllowFalse, Detect}
RefPropVals == {JStr("warn"), AllowTrue, Detect}
PropKeys == {"k1", "k2"}

ObjectsOver(keys, vals) == UNION {{JObj(f) : f \in [ks -> vals]} : ks \in SUBSET keys}

JsxTrue == JObj([jsx |-> JBool(TRUE)])
JsxFalse == JObj([jsx |-> JBool(FALSE)])

ParserOptionsOf(versions, sourceTypes, features) ==
  {JObj([k \in {n \in {"ecmaVersion", "sourceType", "ecmaFeatures"} :
                  CASE n = "ecmaVersion" -> ev # Undefined
                    [] n = "sourceType" -> st # Undefined
                    [] n = "ecmaFeatures" -> ef # Undefined}
          |-> CASE k = "ecmaVersion" -> ev
                [] k = "sourceType" -> st
                [] k = "ecmaFeatures" -> ef]) :
     ev \in versions, st \in sourceTypes, ef \in features}

TargetParserOptions ==
  ParserOptionsOf({Undefined, JNum(2018), JNum(2019), JNum(2020), JStr("2018"),
                   JStr("2019"), JStr("2020"), JStr("latest")},
                  {Undefined, JStr("module"), JStr("script")},
                  {Undefined, JsxTrue, JsxFalse})

RefParserOptions ==
  ParserOptionsOf({Undefined, JNum(2018), JNum(2019), JNum(2020), JStr("2020"),
                   JStr("latest")},
                  {Undefined, JStr("module")},
                  {Undefined, JsxTrue})

TsxBlock == JObj([files |-> JArr(<<JStr("*.tsx")>>),
                  rules |-> JObj([x |-> JStr("off")])])
TsBlock == JObj([files |-> JArr(<<JStr("*.ts")>>),
                 rules |-> JObj([x |-> JStr("off")])])
Blocks == {TsxBlock, TsBlock}

\* the values a property of the target / of the reference is drawn from
TargetValues(f) ==
  CASE f = "extends" -> {Undefined} \cup Entries \cup {JArr(q) : q \in SeqsUpTo(Entries, MaxLen)}
    [] f = "plugins" -> {Undefined} \cup {JArr(q) : q \in SeqsUpTo(Entries, MaxLen)}
    [] f = "parserOptions" -> {Undefined} \cup TargetParserOptions
    [] f = "overrides" -> {Undefined} \cup {JArr(q) : q \in SeqsUpTo(Blocks, MaxLen)}
    [] OTHER -> {Undefined} \cup ObjectsOver(PropKeys, TargetPropVals)

RefValues(f) ==
  CASE f = "extends" -> {Undefined} \cup Entries \cup {JArr(q) : q \in SeqsUpTo(Entries, MaxRefLen)}
    [] f = "plugins" -> {Undefined} \cup {JArr(q) : q \in SeqsUpTo(Entries, MaxRefLen)}
    [] f = "parserOptions" -> {Undefined} \cup RefParserOptions
    [] f = "overrides" -> {Undefined} \cup {JArr(q) : q \in SeqsUpTo(Blocks, MaxRefLen)}
    [] OTHER -> {Undefined} \cup ObjectsOver(PropKeys, RefPropVals)

\* what the other properties hold while one property is varied
FullTarget == [extends |-> JArr(<<JStr("a"), JStr("b")>>),
               plugins |-> JArr(<<JStr("b"), JStr("a")>>),
               parser |-> JStr("@typescript-eslint/parser"),
               parserOptions |-> JObj([ecmaVersion |-> JNum(2018), project |-> JStr("./tsconfig.json")]),
               rules |-> JObj([k1 |-> JStr("warn"), k2 |-> AllowFalse]),
               env |-> JObj([k1 |-> JBool(TRUE)]),
               settings |-> JObj([k1 |-> Detect]),
               overrides |-> JArr(<<TsBlock>>)]

FullRef == [extends |-> JArr(<<JStr("b")>>),
            plugins |-> JArr(<<JStr("b")>>),
            parser |-> JStr("@typescript-eslint/parser"),
            parserOptions |-> JObj([ecmaVersion |-> JNum(2020), sourceType |-> JStr("module")]),
            rules |-> JObj([k1 |-> JStr("warn"), k2 |-> AllowTrue]),
            env |-> JObj([k1 |-> JBool(TRUE)]),
            settings |-> JObj([k1 |-> Detect]),
            overrides |-> JArr(<<TsxBlock>>)]

NoCall == [op |-> "none", field |-> "none", flag |-> FALSE, id |-> Undefined,
           json |-> EmptyDoc, configBeingExtended |-> EmptyDoc]

----------------------------------------------------------------------------
(* The module-level reference configurations *)

\* const currentTypescriptConfig
TypescriptConfig ==
  [parser |-> JStr("@typescript-eslint/parser"),
   parserOptions |-> JObj([ecmaVersion |-> JNum(2020), sourceType |-> JStr("module")]),
   plugins |-> JArr(<<JStr("@typescript-eslint")>>),
   extends |-> JArr(<<JStr("eslint:recommended"),
                      JStr("plugin:@typescript-eslint/eslint-recommended"),
                      JStr("plugin:@typescript-eslint/recommended"),
                      JStr("prettier"),
                      JStr("prettier/@typescript-eslint")>>),
   rules |-> JObj("@typescript-eslint/explicit-member-accessibility" :> JStr("off")
                  @@ "@typescript-eslint/explicit-module-boundary-types" :> JStr("off")
                  @@ "@typescript-eslint/explicit-function-return-type" :> JStr("off")
                  @@ "@typescript-eslint/no-parameter-properties" :> JStr("off")),
   overrides |-> JArr(<<JObj([files |-> JArr(<<JStr("*.tsx")>>),
                              rules |-> JObj("@typescript-eslint/no-unused-vars" :> JStr("off"))])>>),
   env |-> Undefined,
   settings |-> Undefined]

\* const currentReactConfig.  Of its rules the model keeps one of each shape the
\* source lists (a severity, [severity, string], [severity, object],
\* [severity, object holding an array]); the others differ only in name.
ReactConfig ==
  [rules |-> JObj("array-callback-return" :> JStr("warn")
                  @@ "dot-location" :> JArr(<<JStr("warn"), JStr("property")>>)
                  @@ "no-labels" :> JArr(<<JStr("warn"),
                                           JObj([allowLoop |-> JBool(TRUE),
                                                 allowSwitch |-> JBool(FALSE)])>>)
                  @@ "no-unused-expressions" :> JStr("off")
                  @@ "import/first" :> JStr("error")
                  @@ "react/jsx-pascal-case" :> JArr(<<JStr("warn"),
                                                       JObj([allowAllCaps |-> JBool(TRUE),
                                                             ignore |-> EmptyArr])>>)),
   env |-> JObj([browser |-> JBool(TRUE), commonjs |-> JBool(TRUE), es6 |-> JBool(TRUE),
                 jest |-> JBool(TRUE), node |-> JBool(TRUE)]),
   settings |-> JObj([react |-> JObj([version |-> JStr("detect")])]),
   plugins |-> JArr(<<JStr("import"), JStr("jsx-a11y"), JStr("react"), JStr("react-hooks")>>),
   extends |-> Undefined,
   parser |-> Undefined,
   parserOptions |-> Undefined,
   overrides |-> Undefined]

----------------------------------------------------------------------------
(* Direct calls of the exported reducers *)

\* no updateJsonInTree callback has run
CallbackIdle ==
  /\ currentTypescriptConfig = TypescriptConfig
  /\ currentReactConfig = ReactConfig
  /\ pc = "idle"
  /\ profile = "none"
  /\ calls = <<>>
  /\ input = EmptyDoc
  /\ first = EmptyDoc
  /\ pass = 1
  /\ ndocs = 0

\* one reducer call on a target and a reference: one property drawn from its
\* values, the others all absent or all present
ReducerInit ==
  /\ \E bg \in {<<EmptyDoc, EmptyDoc>>, <<FullTarget, FullRef>>}, f \in Fields \ {"parser"} :
       \E tv \in TargetValues(f), rv \in RefValues(f) :
         /\ json = [bg[1] EXCEPT ![f] = tv]
         /\ configBeingExtended = [bg[2] EXCEPT ![f] = rv]
         /\ ref0 = [bg[2] EXCEPT ![f] = rv]
  /\ call = NoCall
  /\ ncalls = MaxCalls - 1
  /\ CallbackIdle

\* runs of reducer calls on the documents whose properties are all absent or all present
SeqInit ==
  /\ json \in {EmptyDoc, FullTarget}
  /\ configBeingExtended \in {EmptyDoc, FullRef, [FullRef EXCEPT !.extends = JStr("b")]}
  /\ ref0 = configBeingExtended
  /\ call = NoCall
  /\ ncalls = 0
  /\ CallbackIdle

Called(op, field, flag, id, r) ==
  /\ ncalls < MaxCalls
  /\ json' = r.json
  /\ configBeingExtended' = r.configBeingExtended
  /\ call' = [op |-> op, field |-> field, flag |-> flag, id |-> id,
              json |-> json, configBeingExtended |-> configBeingExtended]
  /\ ncalls' = ncalls + 1
  /\ UNCHANGED <<ref0, moduleVars, callbackVars>>

CallExtends ==
  \E flag \in BOOLEAN, id \in Entries :
    Called("extends", "extends", flag, id,
           updateExtendsAndRemoveDuplication(json, configBeingExtended, flag, id))

CallPlugins ==
  \E flag \in BOOLEAN, id \in Entries \cup {Undefined} :
    Called("plugins", "plugins", flag, id,
           updatePluginsAndRemoveDuplication(json, configBeingExtended, flag, id))

CallParserOptions ==
  Called("parserOptions", "parserOptions", FALSE, Undefined,
         updateParserOptionsAndRemoveDuplication(json, configBeingExtended))

CallObjProp ==
  \E flag \in BOOLEAN, objPropName \in {"rules", "env", "settings"} :
    Called("objProp", objPropName, flag, Undefined,
           updateObjPropAndRemoveDuplication(json, configBeingExtended, objPropName, flag))

CallOverrides ==
  \E flag \in BOOLEAN :
    Called("overrides", "overrides", flag, Undefined,
           updateOverridesAndRemoveDuplication(json, configBeingExtended, flag))

ReducerNext ==
  \/ CallExtends
  \/ CallPlugins
  \/ CallParserOptions
  \/ CallObjProp
  \/ CallOverrides

SpecReducer == ReducerInit /\ [][ReducerNext]_vars

SpecSeq == SeqInit /\ [][ReducerNext]_vars

----------------------------------------------------------------------------
(* The two updateJsonInTree callbacks.  Each reducer call is one step, so    *)
(* that the order of the calls is part of the behaviour.                     *)

\* the documents handed to the callbacks: every combination of these values
DocExtends == {Undefined,
               JStr("eslint:recommended"),
               JArr(<<JStr("custom"), JStr("plugin:@nrwl/nx/typescript"), JStr("prettier"),
                      JStr("plugin:@nrwl/nx/react"), JStr("custom")>>)}
DocPlugins == {Undefined,
               JArr(<<JStr("@typescript-eslint")>>),
               JArr(<<JStr("custom"), JStr("@nrwl/nx"), JStr("react"), JStr("custom")>>),
               JArr(<<JStr("jsx-a11y"), JStr("import"), JStr("react-hooks")>>)}
\* parser with parserOptions
DocParsers ==
  {<<Undefined, Undefined>>,
   <<JStr("@typescript-eslint/parser"), Undefined>>,
   <<JStr("@typescript-eslint/parser"),
     JObj([ecmaVersion |-> JNum(2018), sourceType |-> JStr("module"),
           project |-> JStr("./tsconfig.json")])>>,
   <<JStr("babel-eslint"),
     JObj([ecmaVersion |-> JStr("2020"), sourceType |-> JStr("script")])>>}
DocOverrides == {Undefined,
                 JArr(<<JObj([files |-> JArr(<<JStr("*.tsx")>>),
                              rules |-> JObj("@typescript-eslint/no-unused-vars" :> JStr("off"))])>>),
                 JArr(<<JObj([files |-> JArr(<<JStr("*.spec.ts")>>),
                              rules |-> EmptyObj])>>)}
\* rules with env and settings
DocProps ==
  {<<Undefined, Undefined, Undefined>>,
   <<JObj("@typescript-eslint/no-parameter-properties" :> JStr("off")
          @@ "no-labels" :> JArr(<<JStr("warn"),
                                   JObj([allowLoop |-> JBool(TRUE),
                                         allowSwitch |-> JBool(FALSE)])>>)
          @@ "dot-location" :> JArr(<<JStr("warn"), JStr("object")>>)),
     JObj([browser |-> JBool(TRUE), node |-> JBool(FALSE)]),
     JObj([react |-> JObj([version |-> JStr("detect")])])>>,
   <<JObj("import/first" :> JStr("error")),
     JObj([jest |-> JBool(TRUE)]),
     Undefined>>}

Documents ==
  {[extends |-> e, plugins |-> p, parser |-> pa[1], parserOptions |-> pa[2],
    overrides |-> o, rules |-> pr[1], env |-> pr[2], settings |-> pr[3]] :
     e \in DocExtends, p \in DocPlugins, pa \in DocParsers, o \in DocOverrides,
     pr \in DocProps}

\* the callback of updateRootESLintConfig, start to end
rootCallback(d, ts) ==
  LET s1 == updateExtendsAndRemoveDuplication(d, ts, TRUE, JStr("plugin:@nrwl/nx/typescript"))
      s2 == updatePluginsAndRemoveDuplication(s1.json, s1.configBeingExtended, TRUE,
                                              JStr("@nrwl/nx"))
      s3 == updateParserOptionsAndRemoveDuplication(s2.json, s2.configBeingExtended)
      s4 == updateOverridesAndRemoveDuplication(s3.json, s3.configBeingExtended, TRUE)
      s5 == updateObjPropAndRemoveDuplication(s4.json, s4.configBeingExtended, "rules", FALSE)
  IN IF s5.json.parser = s5.configBeingExtended.parser
     THEN [s5.json EXCEPT !.parser = Undefined]
     ELSE s5.json

\* json.plugins?.includes(name)
pluginsInclude(d, name) == d.plugins.t = "arr" /\ includes(d.plugins.v, JStr(name))

usesReactPlugins(d) ==
  \/ pluginsInclude(d, "react")
  \/ pluginsInclude(d, "react-hooks")
  \/ pluginsInclude(d, "jsx-a11y")

\* the callback of updateReactESLintConfigs, start to end
reactCallback(d, rc) ==
  IF usesReactPlugins(d)
  THEN LET s1 == updateExtendsAndRemoveDuplication(d, rc, TRUE, JStr("plugin:@nrwl/nx/react"))
           s2 == updatePluginsAndRemoveDuplication(s1.json, s1.configBeingExtended, TRUE,
                                                   Undefined)
           s3 == updateObjPropAndRemoveDuplication(s2.json, s2.configBeingExtended,
                                                   "rules", FALSE)
           s4 == updateObjPropAndRemoveDuplication(s3.json, s3.configBeingExtended,
                                                   "env", TRUE)
           s5 == updateObjPropAndRemoveDuplication(s4.json, s4.configBeingExtended,
                                                   "settings", TRUE)
       IN s5.json
  ELSE d

\* no exported reducer is called directly
ReducersIdle ==
  /\ configBeingExtended = EmptyDoc
  /\ ref0 = EmptyDoc
  /\ call = NoCall
  /\ ncalls = 0

Init ==
  /\ json = EmptyDoc
  /\ ReducersIdle
  /\ CallbackIdle

\* updateJsonInTree reads a document and hands it to the callback
Start(p, at) ==
  /\ pc \in {"idle", "done"}
  /\ ndocs < MaxDocs
  /\ \E d \in Documents :
       /\ json' = d
       /\ input' = d
  /\ profile' = p
  /\ pc' = at
  /\ calls' = <<>>
  /\ first' = EmptyDoc
  /\ pass' = 1
  /\ ndocs' = ndocs + 1
  /\ UNCHANGED <<configBeingExtended, call, ncalls, ref0, moduleVars>>

StartRoot == Start("root", "extends")

StartReact == Start("react", "guard")

\* the migration is run again on the document it wrote
Rerun ==
  /\ pc = "done"
  /\ pass = 1
  /\ first' = json
  /\ pass' = 2
  /\ pc' = IF profile = "root" THEN "extends" ELSE "guard"
  /\ calls' = <<>>
  /\ UNCHANGED <<json, configBeingExtended, call, ncalls, ref0, moduleVars, profile,
                 input, ndocs>>

\* a reducer call of the root callback: r is what it leaves of json and the reference
RootStep(at, r, next) ==
  /\ profile = "root"
  /\ pc = at
  /\ json' = r.json
  /\ currentTypescriptConfig' = r.configBeingExtended
  /\ calls' = Append(calls, at)
  /\ pc' = next
  /\ UNCHANGED <<configBeingExtended, call, ncalls, ref0, currentReactConfig, profile,
                 input, first, pass, ndocs>>

RootExtends ==
  RootStep("extends",
           updateExtendsAndRemoveDuplication(json, currentTypescriptConfig, TRUE,
                                             JStr("plugin:@nrwl/nx/typescript")),
           "plugins")

RootPlugins ==
  RootStep("plugins",
           updatePluginsAndRemoveDuplication(json, currentTypescriptConfig, TRUE,
                                             JStr("@nrwl/nx")),
           "parserOptions")

RootParserOptions ==
  RootStep("parserOptions",
           updateParserOptionsAndRemoveDuplication(json, currentTypescriptConfig),
           "overrides")

RootOverrides ==
  RootStep("overrides",
           updateOverridesAndRemoveDuplication(json, currentTypescriptConfig, TRUE),
           "rules")

RootRules ==
  RootStep("rules",
           updateObjPropAndRemoveDuplication(json, currentTypescriptConfig, "rules", FALSE),
           "parser")

\* mutant: parser is deleted without the comparison
RootParserUnconditionally ==
  /\ profile = "root"
  /\ pc = "parser"
  /\ json' = [json EXCEPT !.parser = Undefined]
  /\ pc' = "done"
  /\ UNCHANGED <<configBeingExtended, call, ncalls, ref0, moduleVars, profile, calls,
                 input, first, pass, ndocs>>

\* if (json.parser === currentTypescriptConfig.parser) delete json.parser; return json
RootParser ==
  /\ profile = "root"
  /\ pc = "parser"
  /\ json' = IF StrictEquals(json.parser, currentTypescriptConfig.parser)
             THEN [json EXCEPT !.parser = Undefined]
             ELSE json
  /\ pc' = "done"
  /\ UNCHANGED <<configBeingExtended, call, ncalls, ref0, moduleVars, profile, calls,
                 input, first, pass, ndocs>>

\* the test on the document's plugins; return json when it fails
ReactGuard ==
  /\ profile = "react"
  /\ pc = "guard"
  /\ pc' = IF usesReactPlugins(json) THEN "extends" ELSE "done"
  /\ UNCHANGED <<json, configBeingExtended, call, ncalls, ref0, moduleVars, profile,
                 calls, input, first, pass, ndocs>>

ReactStep(at, r, next) ==
  /\ profile = "react"
  /\ pc = at
  /\ json' = r.json
  /\ currentReactConfig' = r.configBeingExtended
  /\ calls' = Append(calls, at)
  /\ pc' = next
  /\ UNCHANGED <<configBeingExtended, call, ncalls, ref0, currentTypescriptConfig,
                 profile, input, first, pass, ndocs>>

ReactExtends ==
  ReactStep("extends",
            updateExtendsAndRemoveDuplication(json, currentReactConfig, TRUE,
                                              JStr("plugin:@nrwl/nx/react")),
            "plugins")

ReactPlugins ==
  ReactStep("plugins",
            updatePluginsAndRemoveDuplication(json, currentReactConfig, TRUE, Undefined),
            "rules")

ReactRules ==
  ReactStep("rules",
            updateObjPropAndRemoveDuplication(json, currentReactConfig, "rules", FALSE),
            "env")

ReactEnv ==
  ReactStep("env",
            updateObjPropAndRemoveDuplication(json, currentReactConfig, "env", TRUE),
            "settings")

ReactSettings ==
  ReactStep("settings",
            updateObjPropAndRemoveDuplication(json, currentReactConfig, "settings", TRUE),
            "done")

Next ==
  \/ StartRoot
  \/ StartReact
  \/ Rerun
  \/ RootExtends
  \/ RootPlugins
  \/ RootParserOptions
  \/ RootOverrides
  \/ RootRules
  \/ RootParser
  \/ ReactGuard
  \/ ReactExtends
  \/ ReactPlugins
  \/ ReactRules
  \/ ReactEnv
  \/ ReactSettings

Spec == Init /\ [][Next]_vars

----------------------------------------------------------------------------
(* Properties of a single reducer call, stated on the state before the     *)
(* call (kept in call) and the state after it.                              *)

\* a string or an absent value seen as a list
ListForm(v) ==
  IF v.t = "str" THEN JArr(<<v>>) ELSE IF v.t = "undefined" THEN EmptyArr ELSE v

\* an absent value seen as an object without properties
ObjForm(v) == IF v.t = "undefined" THEN EmptyObj ELSE v

Range(q) == {q[i] : i \in 1..Len(q)}

NoDuplicates(q) == \A i, k \in 1..Len(q) : q[i] = q[k] => i = k

FirstIndex(q, x) == CHOOSE i \in 1..Len(q) : q[i] = x /\ \A k \in 1..(i - 1) : q[k] # x

\* the entries of q other than skip stand in the order in which src first shows them
InFirstSeenOrder(q, src, skip) ==
  \A i, k \in 1..Len(q) :
    (i < k /\ q[i] \notin skip /\ q[k] \notin skip) =>
      /\ q[i] \in Range(src)
      /\ q[k] \in Range(src)
      /\ FirstIndex(src, q[i]) < FirstIndex(src, q[k])

\* the entries of q at the positions in idx, in order
RECURSIVE PickFrom(_, _, _)
PickFrom(q, idx, i) ==
  IF i > Len(q) THEN <<>>
  ELSE (IF i \in idx THEN <<q[i]>> ELSE <<>>) \o PickFrom(q, idx, i + 1)

ListCall == call.op \in {"extends", "plugins"}
Injects == ListCall /\ call.id # Undefined
TargetListBefore == ListForm(call.json[call.field]).v
RefListBefore == ListForm(call.configBeingExtended[call.field]).v

\* C2 (as claimed): a reducer other than extends, called without an identifier
\* to insert on a target that lacks the reducer's property, leaves the property absent.
C2_NoSpuriousKey ==
  (/\ call.op \in {"plugins", "parserOptions", "objProp", "overrides"}
   /\ call.id = Undefined
   /\ call.json[call.field] = Undefined)
  => json[call.field] = Undefined

\* C4 (as claimed): after the extends or plugins reducer ran with an identifier,
\* the property is a duplicate-free list in first-seen order that starts with the identifier.
C4_IdentifierAlwaysFirst ==
  Injects =>
    /\ json[call.field].t = "arr"
    /\ NoDuplicates(json[call.field].v)
    /\ InFirstSeenOrder(json[call.field].v, TargetListBefore, {call.id})
    /\ Len(json[call.field].v) > 0
    /\ json[call.field].v[1] = call.id

\* C4 (amended): a list the extends or plugins reducer leaves behind has no
\* duplicates and no entry of the reference list, and shows the surviving entries in
\* first-seen order.  An identifier outside the reference list is in the result: first
\* for extends, first for plugins unless the target already listed it (then it keeps
\* its place).  An identifier inside the reference list is removed.
C4_ListShape ==
  Injects =>
    LET res == json[call.field]
        wasListed == call.id \in Range(TargetListBefore)
        moved == call.op = "extends" \/ ~wasListed
    IN /\ res.t \in {"arr", "undefined"}
       /\ res.t = "arr" =>
            /\ NoDuplicates(res.v)
            /\ Range(res.v) \cap Range(RefListBefore) = {}
            /\ InFirstSeenOrder(res.v, TargetListBefore, IF moved THEN {call.id} ELSE {})
       /\ call.id \notin Range(RefListBefore) =>
            /\ res.t = "arr"
            /\ call.id \in Range(res.v)
            /\ moved => res.v[1] = call.id
       /\ res.t = "undefined" => call.flag /\ call.id \in Range(RefListBefore)

\* C4 witness: plugins keeps an identifier the target already lists behind other entries.
C4_Witness ==
  /\ call.op = "plugins"
  /\ call.id # Undefined
  /\ json.plugins.t = "arr"
  /\ Len(json.plugins.v) > 1
  /\ call.id \in Range(json.plugins.v)
  /\ json.plugins.v[1] # call.id

\* The list algorithm as the specification words it: normalise, prepend the
\* identifier (only if not yet listed, unless always), drop what the reference
\* lists, keep first occurrences, delete the property if asked and empty.
ListAlgorithm(target, reference, id, flag, always) ==
  LET tgt == ListForm(target).v
      ref == ListForm(reference).v
      withId == IF id # Undefined /\ (always \/ id \notin Range(tgt))
                THEN <<id>> \o tgt ELSE tgt
      keep == {i \in 1..Len(withId) :
                 /\ withId[i] \notin Range(ref)
                 /\ \A k \in 1..(i - 1) : withId[k] # withId[i]}
      res == PickFrom(withId, keep, 1)
  IN IF flag /\ res = <<>> THEN Undefined ELSE JArr(res)

\* C5 (as claimed): both list reducers compute the specified algorithm, which
\* prepends the identifier only when the target does not list it yet.
C5_BothFollowAlgorithm ==
  ListCall =>
    json[call.field] = ListAlgorithm(call.json[call.field],
                                     call.configBeingExtended[call.field],
                                     call.id, call.flag, FALSE)

\* C5 (amended): the plugins reducer computes the specified algorithm; the extends
\* reducer computes it with the identifier prepended unconditionally, so that an
\* identifier the target already lists moves to the front.
C5_ListAlgorithm ==
  ListCall =>
    json[call.field] = ListAlgorithm(call.json[call.field],
                                     call.configBeingExtended[call.field],
                                     call.id, call.flag, call.op = "extends")

\* C5 witness: extends moved an identifier forward that the target listed further back.
C5_Witness ==
  /\ call.op = "extends"
  /\ Len(TargetListBefore) > 1
  /\ TargetListBefore[1] # call.id
  /\ call.id \in Range(TargetListBefore)
  /\ json.extends.t = "arr"
  /\ Len(json.extends.v) > 1
  /\ json.extends.v[1] = call.id

\* the object a keyed reducer worked on, the reference's, and what it left
PropBefore == ObjForm(call.json[call.field])
RefPropBefore == ObjForm(call.configBeingExtended[call.field])
PropAfter == ObjForm(json[call.field])

\* what is left holds exactly the properties outside deleted, with their values
LeavesAllBut(deleted) ==
  /\ json[call.field].t \in {"obj", "undefined"}
  /\ DOMAIN PropAfter.v = (DOMAIN PropBefore.v) \ deleted
  /\ \A k \in DOMAIN PropAfter.v : PropAfter.v[k] = PropBefore.v[k]

\* the properties of the target whose value is structurally the reference's
StructurallySame == {k \in DOMAIN PropBefore.v : PropBefore.v[k] = Get(RefPropBefore, k)}

\* ecmaVersion, when numerically 2018 or numerically the reference's ecmaVersion
NumericallyStale ==
  LET mine == Number(Get(PropBefore, "ecmaVersion"))
      theirs == Number(Get(RefPropBefore, "ecmaVersion"))
  IN IF /\ ~mine.nan
        /\ mine.n = 2018 \/ (~theirs.nan /\ mine.n = theirs.n)
     THEN {"ecmaVersion"} ELSE {}

\* C6 (as claimed): for rules, env, settings and parserOptions alike the reducer
\* deletes exactly the properties structurally equal to the reference's.
C6_DeepEqualEverywhere ==
  call.op \in {"objProp", "parserOptions"} => LeavesAllBut(StructurallySame)

\* C6 (amended): for rules, env and settings the reducer deletes exactly the
\* properties structurally equal to the reference's, nested arrays and objects
\* included.  For parserOptions it deletes ecmaVersion by the numeric rule and
\* otherwise exactly the properties holding the same primitive value as the
\* reference; an array or object in parserOptions is never deleted.
C6_KeyedReducer ==
  /\ call.op = "objProp" => LeavesAllBut(StructurallySame)
  /\ call.op = "parserOptions" =>
       LeavesAllBut(NumericallyStale
                    \cup {k \in StructurallySame : PropBefore.v[k].t \notin {"arr", "obj"}})

\* C6 witness: parserOptions kept a nested object equal to the reference's, and
\* dropped an ecmaVersion that differs from the reference's.
C6_Witness ==
  /\ call.op = "parserOptions"
  /\ "ecmaFeatures" \in DOMAIN PropAfter.v
  /\ PropAfter.v["ecmaFeatures"] = Get(RefPropBefore, "ecmaFeatures")
  /\ Get(PropBefore, "ecmaVersion") = JNum(2018)
  /\ Get(RefPropBefore, "ecmaVersion") = JNum(2020)
  /\ "ecmaVersion" \notin DOMAIN PropAfter.v

C8_Overrides ==
  call.op = "overrides" =>
    LET mine == call.json.overrides
        theirs == call.configBeingExtended.overrides
    IN IF /\ mine.t = "arr" /\ Len(mine.v) > 0
          /\ theirs.t = "arr" /\ Len(theirs.v) > 0
       THEN json = [call.json EXCEPT !.overrides = IF call.flag THEN Undefined ELSE EmptyArr]
       ELSE json = call.json

\* C8 witness: a block that matches no block of the reference was removed.
C8_Witness ==
  /\ call.op = "overrides"
  /\ call.json.overrides.t = "arr"
  /\ call.configBeingExtended.overrides.t = "arr"
  /\ \E i \in 1..Len(call.json.overrides.v) :
       call.json.overrides.v[i] \notin Range(call.configBeingExtended.overrides.v)
  /\ json.overrides = EmptyArr

----------------------------------------------------------------------------
(* The reference across runs of reducer calls (SpecSeq) *)

\* C3 (as claimed): whatever reducers ran, the reference differs from what it was
\* at most by extends and plugins having been put in list form.
C3_ReferenceReadOnly ==
  \A f \in Fields :
    \/ configBeingExtended[f] = ref0[f]
    \/ f \in {"extends", "plugins"} /\ configBeingExtended[f] = ListForm(ref0[f])

\* C3 (amended): whatever reducers ran, the reference differs from what it was at
\* most by extends and plugins having been put in list form and by an absent
\* parserOptions, rules, env or settings having been created as an empty object;
\* no property it had is removed or changed, and overrides and parser are untouched.
C3_ReferenceOnlyDefaulted ==
  \A f \in Fields :
    \/ configBeingExtended[f] = ref0[f]
    \/ f \in {"extends", "plugins"} /\ configBeingExtended[f] = ListForm(ref0[f])
    \/ /\ f \in {"parserOptions", "rules", "env", "settings"}
       /\ ref0[f] = Undefined
       /\ configBeingExtended[f] = EmptyObj

\* C3 witness: after several calls a reference without properties has gained an
\* empty parserOptions and an extends list.
C3_Witness ==
  /\ ncalls >= 2
  /\ ref0 = EmptyDoc
  /\ configBeingExtended.parserOptions = EmptyObj
  /\ configBeingExtended.extends = EmptyArr
  /\ configBeingExtended.overrides = Undefined

----------------------------------------------------------------------------
(* The callbacks (Spec) *)

\* the document the running pass of the callback started from
Source == IF pass = 1 THEN input ELSE first

IsPrefix(a, b) == Len(a) <= Len(b) /\ \A i \in 1..Len(a) : a[i] = b[i]

RootOrder == <<"extends", "plugins", "parserOptions", "overrides", "rules">>
ReactOrder == <<"extends", "plugins", "rules", "env", "settings">>
ClaimedReactOrder == RootOrder \o <<"env", "settings">>

\* C1: migrating a migrated document again, with the same callback, changes nothing.
C1_Idempotent == (pc = "done" /\ pass = 2) => json = first

\* C1 witness: the root callback ran all its reducers a second time on a document
\* that its first run had changed.
C1_Witness ==
  /\ pc = "done"
  /\ pass = 2
  /\ profile = "root"
  /\ calls = RootOrder
  /\ first # input
  /\ json = first

\* C9 (as claimed): both callbacks call extends, plugins, parserOptions, overrides,
\* rules in this order (the React one, on a document it migrates, then env and
\* settings) and afterwards delete parser exactly when it equals the reference's parser.
C9_SameOrderEveryProfile ==
  LET order == IF profile = "react" THEN ClaimedReactOrder ELSE RootOrder
      reference == IF profile = "react" THEN currentReactConfig ELSE currentTypescriptConfig
  IN /\ IsPrefix(calls, order)
     /\ (pc = "done" /\ (profile = "root" \/ usesReactPlugins(Source))) =>
          /\ calls = order
          /\ json.parser = IF Source.parser = reference.parser THEN Undefined
                           ELSE Source.parser
     /\ pc \notin {"done", "idle"} => json.parser = Source.parser

\* C9 (amended): the root callback calls extends, plugins, parserOptions, overrides,
\* rules in this order and only then deletes parser, exactly when it equals the
\* reference's parser.  The React callback does nothing unless the document's plugins
\* include react, react-hooks or jsx-a11y; then it calls extends, plugins, rules, env,
\* settings in this order; it never runs the parserOptions or overrides reducer and
\* never touches parser.
C9_Order ==
  /\ profile = "root" =>
       /\ IsPrefix(calls, RootOrder)
       /\ pc = "done" =>
            /\ calls = RootOrder
            /\ json.parser = IF Source.parser = currentTypescriptConfig.parser
                             THEN Undefined ELSE Source.parser
       /\ pc # "done" => json.parser = Source.parser
  /\ profile = "react" =>
       /\ IsPrefix(calls, ReactOrder)
       /\ pc = "done" =>
            calls = IF usesReactPlugins(Source) THEN ReactOrder ELSE <<>>
       /\ json.parser = Source.parser
       /\ json.parserOptions = Source.parserOptions
       /\ json.overrides = Source.overrides

\* C9 witness: the React callback ran its five reducers and the document still has
\* the ecmaVersion 2018, the parser and the override block of the root reference.
C9_Witness ==
  /\ profile = "react"
  /\ pc = "done"
  /\ calls = ReactOrder
  /\ json.parserOptions.t = "obj"
  /\ Get(json.parserOptions, "ecmaVersion") = JNum(2018)
  /\ json.parser = TypescriptConfig.parser
  /\ json.overrides = TypescriptConfig.overrides

\* C10: what a callback makes of a document does not depend on the documents
\* migrated before it: it is what the callback makes of it with the module-level
\* references as the module defines them.
C10_Independent ==
  pc = "done" =>
    json = IF profile = "root" THEN rootCallback(Source, TypescriptConfig)
           ELSE reactCallback(Source, ReactConfig)

\* C10 witness: a second document was migrated by the React callback after an
\* earlier migration had written to the React reference.
C10_Witness ==
  /\ pc = "done"
  /\ ndocs = 2
  /\ pass = 1
  /\ profile = "react"
  /\ currentReactConfig # ReactConfig
  /\ calls = ReactOrder
  /\ json # input

====
